---- MODULE Spec2Model ----
(***************************************************************************)
(* The Index view of src/Index(1).tsx: five state slots fed by four        *)
(* realtime-store subscriptions under /devices/{hno}/, and two write       *)
(* actions.  Every callback is one atomic step of the single UI thread     *)
(* (React batches the setState calls of one callback).                     *)
(*                                                                         *)
(* Encodings: a JS object is the sequence of its [key, value] entries in   *)
(* the order Object.keys enumerates them; null is the record Null; a       *)
(* fractional literal is kept in fixed point (28.5 -> 285 tenths,          *)
(* 6.9271 -> 69271 ten-thousandths); an ISO-8601 string made from the      *)
(* instant t is <<"ISO", t>>.                                              *)
(***************************************************************************)
EXTENDS Integers, Sequences, FiniteSets

\* deviceData, alerts, logs, config, isConnected: the five useState slots.
\* mounted: the effect has run and its cleanup has not.
\* listeners: the number of onValue registrations per path.
\* storeConfig: the value the store holds at /devices/{hno}/config.
VARIABLES deviceData, alerts, logs, config, isConnected,
          mounted, listeners, storeConfig, writes, last

\* last: the step taken last, with the snapshot a notification carried, the
\* argument of a save, or what set() answered and what the handler returned;
\* writes: the store writes issued and not yet settled, oldest first.
vars == <<deviceData, alerts, logs, config, isConnected,
          mounted, listeners, storeConfig, writes, last>>

slots == <<deviceData, alerts, logs, config, isConnected>>

\* ------------------------------------------------------------------ bounds
\* Largest number of entries under /devices/{hno}/alerts in one snapshot.
MaxAlerts == 12
\* Largest number of entries under /devices/{hno}/logs/events in one snapshot.
MaxLogs == 52
\* Wall-clock instants new Date() / Date.now() can return: 1..MaxTime.
MaxTime == 1
\* Largest number of store writes awaiting their acknowledgement.
MaxInflight == 1

\* ------------------------------------------------------- program constants
\* alertsArray.slice(0, 10)
AlertsCap == 10
\* logsArray.slice(-50)
LogsCap == 50

Null == [isNull |-> TRUE]

Min(a, b) == IF a < b THEN a ELSE b
Max(a, b) == IF a > b THEN a ELSE b

Times == 1..MaxTime

\* const [hno] = useState("23"): no setter is kept, the identity never changes.
hno == "23"

\* A second identity, only to tell the paths of hno apart from any other's.
DeviceIds == {hno, "24"}

\* ref(database, `/devices/${hno}/current`) and the other five paths.
Ref(id, leaf) == <<"devices", id, leaf>>
dataRef == Ref(hno, "current")
alertsRef == Ref(hno, "alerts")
logsRef == Ref(hno, "logs/events")
configRef == Ref(hno, "config")
calibrateRef == Ref(hno, "commands/calibrate")

ReadLeaves == {"current", "alerts", "logs/events", "config"}
AllRefs == {Ref(id, leaf) : id \in DeviceIds, leaf \in ReadLeaves}
ReadRefs == {dataRef, alertsRef, logsRef, configRef}

\* new Date().toISOString()
ToISOString(t) == <<"ISO", t>>

\* ------------------------------------------------------------- JS helpers
\* Array.prototype.slice(start, end): 0-based, end exclusive, a negative
\* index counts from the end, both clamped to [0, length].
Slice(arr, start, end) ==
  LET len == Len(arr)
      k == IF start < 0 THEN Max(len + start, 0) ELSE Min(start, len)
      final == IF end < 0 THEN Max(len + end, 0) ELSE Min(end, len)
  IN SubSeq(arr, k + 1, final)

\* Array.prototype.reverse()
Reverse(arr) == [i \in 1..Len(arr) |-> arr[Len(arr) - i + 1]]

\* Object.keys(obj) / Object.values(obj)
ObjectKeys(obj) == [i \in 1..Len(obj) |-> obj[i].key]
ObjectValues(obj) == [i \in 1..Len(obj) |-> obj[i].value]

\* obj[key]
Get(obj, k) == obj[CHOOSE i \in 1..Len(obj) : obj[i].key = k].value

\* { ...a, ...b }: the fields of b override those of a.
Spread(a, b) ==
  [f \in (DOMAIN a) \cup (DOMAIN b) |-> IF f \in DOMAIN b THEN b[f] ELSE a[f]]

\* A DataSnapshot: snapshot.exists() and snapshot.val().
NoData == [exists |-> FALSE, val |-> Null]
DataSnap(v) == [exists |-> TRUE, val |-> v]

\* ------------------------------------------------------- store payloads
\* Values a device can leave under /devices/{hno}/current: a full reading
\* and one with a single field.
Readings ==
  { [temperature |-> 312, humidity |-> 70, lpgLevel |-> 4200,
     flameStatus |-> TRUE, gasLeakStatus |-> TRUE,
     timestamp |-> ToISOString(1), location |-> [lat |-> 69000, lng |-> 798000]],
    [temperature |-> 190] }

\* The object under /devices/{hno}/alerts after n alerts were pushed: push
\* keys sort in the order of arrival, so entry i is the i-th alert received.
AlertsData(n) ==
  [i \in 1..n |-> [key |-> i,
                   value |-> [type |-> "gas-leak", timestamp |-> ToISOString(i)]]]

\* The object under /devices/{hno}/logs/events after n events, oldest first.
LogsData(n) ==
  [i \in 1..n |-> [key |-> i,
                   value |-> [timestamp |-> ToISOString(i), eventType |-> "Normal"]]]

\* Payload sizes tried: a single entry, exactly the cap, and the largest.
AlertLens == {1, AlertsCap, MaxAlerts}
LogLens == {1, LogsCap, MaxLogs}

\* The config object the user saves.
Configs == { [brand |-> "X"] }

DataSnapshots == {NoData} \cup {DataSnap(r) : r \in Readings}
AlertsSnapshots == {NoData} \cup {DataSnap(AlertsData(n)) : n \in AlertLens}
LogsSnapshots == {NoData} \cup {DataSnap(LogsData(n)) : n \in LogLens}

\* The snapshot a config listener is handed: the store's value at the path.
ConfigSnapshot == IF storeConfig = Null THEN NoData ELSE DataSnap(storeConfig)

\* ------------------------------------------------------------ projections
\* "Mock data for testing"
MockDeviceData(t) ==
  [temperature |-> 285, humidity |-> 65, lpgLevel |-> 8500,
   flameStatus |-> FALSE, gasLeakStatus |-> FALSE,
   timestamp |-> ToISOString(t), location |-> [lat |-> 69271, lng |-> 798612]]

\* "Mock alerts for testing" (id "1")
MockAlerts(t) ==
  << [id |-> 1, type |-> "auto-book",
      message |-> "LPG Level Low - Auto-book triggered",
      timestamp |-> ToISOString(t)] >>

\* "Mock logs for testing"
MockLogs(t) ==
  << [timestamp |-> ToISOString(t), eventType |-> "Normal",
      temperature |-> 285, humidity |-> 65, lpgLevel |-> 8500,
      flameStatus |-> FALSE, gasLeakStatus |-> FALSE] >>

\* Variant of alertsProjection without the slice.
alertsProjectionNoSlice(alertsData) ==
  LET keys == ObjectKeys(alertsData)
  IN [i \in 1..Len(keys) |-> Spread([id |-> keys[i]], Get(alertsData, keys[i]))]

\* Object.keys(alertsData).map(key => ({id: key, ...alertsData[key]})).slice(0, 10)
alertsProjection(alertsData) ==
  LET keys == ObjectKeys(alertsData)
      alertsArray ==
        [i \in 1..Len(keys) |-> Spread([id |-> keys[i]], Get(alertsData, keys[i]))]
  IN Slice(alertsArray, 0, AlertsCap)

\* Variant of logsProjection taking slice(0, 50), the oldest entries.
logsProjectionFirst(logsData) ==
  Reverse(Slice(ObjectValues(logsData), 0, LogsCap))

\* Object.values(logsData).slice(-50).reverse()
logsProjection(logsData) ==
  LET logsArray == ObjectValues(logsData)
  IN Reverse(Slice(logsArray, 0 - LogsCap, Len(logsArray)))

\* ------------------------------------------------------------------ state
\* The useState initialisers.
InitialSlots ==
  /\ deviceData = Null
  /\ alerts = <<>>
  /\ logs = <<>>
  /\ config = Null
  /\ isConnected = FALSE

\* The references the effect body hands to onValue.
subscribed == {dataRef, alertsRef, logsRef, configRef}

\* Variant of unsubscribed in which the cleanup forgets unsubscribeConfig.
unsubscribedLeakConfig == {dataRef, alertsRef, logsRef}

\* The references whose unsubscribe function the cleanup calls.
unsubscribed == {dataRef, alertsRef, logsRef, configRef}

Init ==
  /\ InitialSlots
  /\ mounted = TRUE
  /\ listeners = [r \in AllRefs |-> IF r \in subscribed THEN 1 ELSE 0]
  /\ storeConfig = Null
  /\ writes = <<>>
  /\ last = [kind |-> "mount"]

\* ---------------------------------------------------------------- actions
\* A fresh instance of the view is rendered and its effect runs.
Mount ==
  /\ ~mounted
  /\ UNCHANGED slots
  /\ mounted' = TRUE
  /\ listeners' = [r \in AllRefs |->
                     IF r \in subscribed THEN listeners[r] + 1 ELSE listeners[r]]
  /\ last' = [kind |-> "mount"]
  /\ UNCHANGED <<storeConfig, writes>>

\* The effect's cleanup, run when the view is torn down; the instance's state
\* slots cease to exist with it (kept at their initial values).
Unmount ==
  /\ mounted
  /\ mounted' = FALSE
  /\ listeners' = [r \in AllRefs |->
                     IF r \in unsubscribed /\ listeners[r] > 0
                       THEN listeners[r] - 1 ELSE listeners[r]]
  /\ deviceData' = Null
  /\ alerts' = <<>>
  /\ logs' = <<>>
  /\ config' = Null
  /\ isConnected' = FALSE
  /\ last' = [kind |-> "unmount"]
  /\ UNCHANGED <<storeConfig, writes>>

\* Variant of onDataValue merging the snapshot into the previous reading.
onDataValueMerge(snapshot) ==
  /\ mounted /\ listeners[dataRef] > 0
  /\ \E t \in Times :
       deviceData' = IF snapshot.exists
                       THEN (IF deviceData = Null THEN snapshot.val
                             ELSE Spread(deviceData, snapshot.val))
                       ELSE MockDeviceData(t)
  /\ isConnected' = TRUE
  /\ last' = [kind |-> "data", snap |-> snapshot]
  /\ UNCHANGED <<alerts, logs, config, mounted, listeners, storeConfig, writes>>

\* Variant of onDataValue that marks connected without storing a reading.
onDataValueNoData(snapshot) ==
  /\ mounted /\ listeners[dataRef] > 0
  /\ isConnected' = TRUE
  /\ last' = [kind |-> "data", snap |-> snapshot]
  /\ UNCHANGED <<deviceData, alerts, logs, config, mounted, listeners,
                 storeConfig, writes>>

\* The value callback of the /current subscription.
onDataValue(snapshot) ==
  /\ mounted /\ listeners[dataRef] > 0
  /\ IF snapshot.exists
       THEN /\ deviceData' = snapshot.val
            /\ isConnected' = TRUE
       ELSE /\ \E t \in Times : deviceData' = MockDeviceData(t)
            /\ isConnected' = TRUE
  /\ last' = [kind |-> "data", snap |-> snapshot]
  /\ UNCHANGED <<alerts, logs, config, mounted, listeners, storeConfig, writes>>

\* Variant of onDataError that also clears the displayed reading.
onDataErrorClear ==
  /\ mounted /\ listeners[dataRef] > 0
  /\ isConnected' = FALSE
  /\ deviceData' = Null
  /\ last' = [kind |-> "error", ref |-> dataRef]
  /\ UNCHANGED <<alerts, logs, config, mounted, listeners, storeConfig, writes>>

\* The error callback of the /current subscription.
onDataError ==
  /\ mounted /\ listeners[dataRef] > 0
  /\ isConnected' = FALSE
  /\ last' = [kind |-> "error", ref |-> dataRef]
  /\ UNCHANGED <<deviceData, alerts, logs, config, mounted, listeners,
                 storeConfig, writes>>

\* The value callback of the /alerts subscription.
onAlertsValue(snapshot) ==
  /\ mounted /\ listeners[alertsRef] > 0
  /\ IF snapshot.exists
       THEN alerts' = alertsProjection(snapshot.val)
       ELSE \E t \in Times : alerts' = MockAlerts(t)
  /\ last' = [kind |-> "alerts", snap |-> snapshot]
  /\ UNCHANGED <<deviceData, logs, config, isConnected, mounted, listeners,
                 storeConfig, writes>>

\* The value callback of the /logs/events subscription.
onLogsValue(snapshot) ==
  /\ mounted /\ listeners[logsRef] > 0
  /\ IF snapshot.exists
       THEN logs' = logsProjection(snapshot.val)
       ELSE \E t \in Times : logs' = MockLogs(t)
  /\ last' = [kind |-> "logs", snap |-> snapshot]
  /\ UNCHANGED <<deviceData, alerts, config, isConnected, mounted, listeners,
                 storeConfig, writes>>

\* The value callback of the /config subscription: no else branch.
onConfigValue(snapshot) ==
  /\ mounted /\ listeners[configRef] > 0
  /\ IF snapshot.exists
       THEN config' = snapshot.val
       ELSE config' = config
  /\ last' = [kind |-> "config", snap |-> snapshot]
  /\ UNCHANGED <<deviceData, alerts, logs, isConnected, mounted, listeners,
                 storeConfig, writes>>

\* A failure of the alerts, logs or config subscription: onValue was given
\* no error callback for these, so no code of the view runs.
onOtherError(r) ==
  /\ mounted /\ listeners[r] > 0
  /\ last' = [kind |-> "error", ref |-> r]
  /\ UNCHANGED <<slots, mounted, listeners, storeConfig, writes>>

\* Variant of handleSaveConfig with an optimistic setConfig(newConfig).
handleSaveConfigOptimistic(newConfig) ==
  /\ mounted
  /\ Len(writes) < MaxInflight
  /\ writes' = Append(writes, [ref |-> configRef, value |-> newConfig,
                               op |-> "handleSaveConfig"])
  /\ config' = newConfig
  /\ last' = [kind |-> "saveConfig", value |-> newConfig]
  /\ UNCHANGED <<deviceData, alerts, logs, isConnected, mounted, listeners,
                 storeConfig>>

\* handleSaveConfig up to its await: set(configRef, newConfig) is issued.
handleSaveConfig(newConfig) ==
  /\ mounted
  /\ Len(writes) < MaxInflight
  /\ writes' = Append(writes, [ref |-> configRef, value |-> newConfig,
                               op |-> "handleSaveConfig"])
  /\ last' = [kind |-> "saveConfig", value |-> newConfig]
  /\ UNCHANGED <<slots, mounted, listeners, storeConfig>>

\* handleCalibrate up to its await.
handleCalibrate ==
  /\ mounted
  /\ Len(writes) < MaxInflight
  /\ \E t \in Times :
       writes' = Append(writes,
                        [ref |-> calibrateRef,
                         value |-> [command |-> "START_CALIBRATION", timestamp |-> t],
                         op |-> "handleCalibrate"])
  /\ last' = [kind |-> "calibrate"]
  /\ UNCHANGED <<slots, mounted, listeners, storeConfig>>

\* Variant of awaitSet that swallows a rejection.
awaitSetSwallow(outcome) == "resolved"

\* await set(...) with no try/catch: the handler's promise settles as set's.
awaitSet(outcome) == outcome

\* The store acknowledges the oldest write; its handler's promise resolves.
SetResolved ==
  /\ writes # <<>>
  /\ LET w == Head(writes)
     IN /\ storeConfig' = IF w.ref = configRef THEN w.value ELSE storeConfig
        /\ last' = [kind |-> "settled", op |-> w.op, outcome |-> "resolved",
                    result |-> awaitSet("resolved")]
  /\ writes' = Tail(writes)
  /\ UNCHANGED <<slots, mounted, listeners>>

\* The store refuses the oldest write; its handler's promise rejects.
SetRejected ==
  /\ writes # <<>>
  /\ last' = [kind |-> "settled", op |-> Head(writes).op, outcome |-> "rejected",
              result |-> awaitSet("rejected")]
  /\ writes' = Tail(writes)
  /\ UNCHANGED <<slots, mounted, listeners, storeConfig>>

\* Another client of the store removes the value at the config path.
StoreRemoveConfig ==
  /\ storeConfig # Null
  /\ storeConfig' = Null
  /\ last' = [kind |-> "storeRemove"]
  /\ UNCHANGED <<slots, mounted, listeners, writes>>

Next ==
  \/ Mount
  \/ Unmount
  \/ \E s \in DataSnapshots : onDataValue(s)
  \/ onDataError
  \/ \E s \in AlertsSnapshots : onAlertsValue(s)
  \/ \E s \in LogsSnapshots : onLogsValue(s)
  \/ onConfigValue(ConfigSnapshot)
  \/ \E r \in {alertsRef, logsRef, configRef} : onOtherError(r)
  \/ \E c \in Configs : handleSaveConfig(c)
  \/ handleCalibrate
  \/ SetResolved
  \/ SetRejected
  \/ StoreRemoveConfig

Spec == Init /\ [][Next]_vars

\* ----------------------------------------------------------------- claims
\* C1: in every reachable state the alerts state holds at most 10 entries,
\* whatever the size of the store's alerts payload.
C1_AlertsAtMostTen == Len(alerts) <= 10

C1_Witness ==
  /\ last.kind = "alerts"
  /\ last.snap.exists
  /\ Len(last.snap.val) > 10
  /\ Len(alerts) = 10

\* C2: right after a logs notification carrying the chronological sequence L
\* of n entries, logs is the last min(n, 50) entries of L, newest first; and
\* logs never holds more than 50 entries.
C2_LogsLastFiftyNewestFirst ==
  /\ Len(logs) <= 50
  /\ (last.kind = "logs" /\ last.snap.exists) =>
       LET L == [i \in 1..Len(last.snap.val) |-> last.snap.val[i].value]
           n == Len(L)
       IN /\ Len(logs) = Min(n, 50)
          /\ \A i \in 1..Len(logs) : logs[i] = L[n - i + 1]
          /\ \A i, j \in 1..Len(logs) :
               i < j => logs[i].timestamp[2] > logs[j].timestamp[2]

C2_Witness ==
  /\ last.kind = "logs"
  /\ last.snap.exists
  /\ Len(last.snap.val) > 50
  /\ Len(logs) = 50
  /\ logs[1] = last.snap.val[Len(last.snap.val)].value
  /\ logs[50] = last.snap.val[Len(last.snap.val) - 49].value

\* C3: right after a telemetry notification, connected is true and the
\* telemetry state is the snapshot's value exactly when the path holds data,
\* the fixed fallback reading (28.5, 65, 8500, false, false) when it holds none.
C3_TelemetryReplacedWholesale ==
  last.kind = "data" =>
    /\ isConnected = TRUE
    /\ IF last.snap.exists
         THEN deviceData = last.snap.val
         ELSE /\ deviceData.temperature = 285
              /\ deviceData.humidity = 65
              /\ deviceData.lpgLevel = 8500
              /\ deviceData.flameStatus = FALSE
              /\ deviceData.gasLeakStatus = FALSE

C3_Witness ==
  /\ last.kind = "data"
  /\ last.snap.exists
  /\ DOMAIN last.snap.val = {"temperature"}
  /\ deviceData = last.snap.val
  /\ isConnected

\* C4: a transport error of the telemetry subscription sets connected to
\* false and leaves the telemetry, alerts, logs and config state unchanged.
C4_ErrorKeepsLastKnownGood ==
  [][(last'.kind = "error" /\ last'.ref = dataRef) =>
       (isConnected' = FALSE /\ UNCHANGED <<deviceData, alerts, logs, config>>)]_vars

C4_Witness ==
  /\ last.kind = "error"
  /\ last.ref = dataRef
  /\ isConnected = FALSE
  /\ deviceData # Null
  /\ Len(alerts) > 0

\* C5: a transport failure on any of the four read subscriptions sets the
\* connected flag to false.
C5_AnyReadErrorDisconnects ==
  last.kind = "error" => isConnected = FALSE

\* C6: after a config notification that carries no data, the config state
\* is null.
C6_EmptyConfigIsNull ==
  (last.kind = "config" /\ ~last.snap.exists) => config = Null

\* C7: while the view is mounted exactly one listener is registered on each
\* of the four paths of the current identity and none elsewhere; after
\* unmount no listener remains.
C7_FourListenersWhileMounted ==
  \A r \in AllRefs :
    listeners[r] =
      IF mounted /\ r \in {Ref(hno, leaf) : leaf \in ReadLeaves} THEN 1 ELSE 0

C7_Witness ==
  /\ mounted
  /\ last.kind = "mount"
  /\ storeConfig # Null
  /\ \A r \in ReadRefs : listeners[r] = 1

\* C8: SaveConfig(newConfig) issues exactly one write, of newConfig to
\* /devices/{id}/config, and changes no state slot; a settled write changes
\* no state slot, a refused one leaves the store as it was and is returned
\* to the caller as a rejection; the config state takes a new value only
\* when a config notification delivers it.
C8_SaveConfigNoOptimisticUpdate ==
  [][/\ last'.kind = "saveConfig" =>
          /\ writes' = Append(writes, [ref |-> <<"devices", hno, "config">>,
                                       value |-> last'.value,
                                       op |-> "handleSaveConfig"])
          /\ UNCHANGED <<deviceData, alerts, logs, config, isConnected>>
     /\ last'.kind = "settled" =>
          /\ UNCHANGED <<deviceData, alerts, logs, config, isConnected>>
          /\ last'.result = last'.outcome
          /\ last'.outcome = "rejected" => storeConfig' = storeConfig
     /\ (mounted' /\ config' # config) =>
          /\ last'.kind = "config"
          /\ last'.snap.exists
          /\ config' = last'.snap.val
    ]_vars

C8_Witness ==
  /\ last.kind = "settled"
  /\ last.op = "handleSaveConfig"
  /\ last.outcome = "resolved"
  /\ storeConfig # Null
  /\ config = Null
  /\ mounted

\* C9: when the alerts payload holds more than 10 entries, the alerts state
\* after the notification consists of the 10 latest alerts of the payload.
C9_KeepsLatestTen ==
  (last.kind = "alerts" /\ last.snap.exists /\ Len(last.snap.val) > 10) =>
    LET n == Len(last.snap.val)
    IN {alerts[i].id : i \in 1..Len(alerts)} =
         {last.snap.val[j].key : j \in (n - 9)..n}

\* C10: in every reachable state, connected being true implies that the
\* telemetry state is present.
C10_ConnectedImpliesTelemetry ==
  isConnected = TRUE => deviceData # Null

C10_Witness ==
  /\ isConnected = TRUE
  /\ deviceData # Null
  /\ last.kind = "settled"

====
